---- MODULE Spec2Model ----
(***************************************************************************)
(* Model of src/lambda_function.py: lambda_handler, which walks a batch of *)
(* SQS envelopes and copies every referenced S3 object to the bucket named *)
(* by DESTINATION_BUCKET, copy_s3_object, and validate_s3_notification.    *)
(*                                                                         *)
(* JSON values are modelled by the structural facts the code probes:       *)
(* whether a field is absent, present but not a mapping, or a mapping, and *)
(* the string it carries.                                                  *)
(***************************************************************************)
EXTENDS Naturals, Sequences, FiniteSets

VARIABLES
    DESTINATION_BUCKET, \* os.environ['DESTINATION_BUCKET'], or Unset
    remaining,          \* envelopes of event['Records'] not yet reached
    pc,                 \* position of lambda_handler
    record,             \* json form of the body of the envelope being processed
    idx,                \* position of the inner loop in message_body['Records']
    success_count,
    error_count,
    result,             \* the value lambda_handler returns
    copies,             \* requests issued to s3_client so far
    outs,               \* copy_s3_object calls of the current envelope
    s0,                 \* success_count when the current envelope started
    e0,                 \* error_count when the current envelope started
    caught,             \* the except branch ran for the current envelope
    units,              \* units of the envelopes reached so far
    vbody,              \* argument of validate_s3_notification
    vresult             \* its outcome

vars == <<DESTINATION_BUCKET, remaining, pc, record, idx, success_count,
          error_count, result, copies, outs, s0, e0, caught, units,
          vbody, vresult>>

hvars == <<DESTINATION_BUCKET, remaining, pc, record, idx, success_count,
           error_count, result, copies, outs, s0, e0, caught, units>>

-----------------------------------------------------------------------------
(* Bounds *)

MaxBatch == 2

MaxInner == 2

-----------------------------------------------------------------------------
(* JSON values *)

\* Python's None: what dict.get returns for a missing key
None == "None"

\* os.environ without the DESTINATION_BUCKET key
Unset == "<unset>"

\* a key that is missing from its mapping
Absent == [k |-> "absent", v |-> None]

\* a key whose value is not a mapping (null, a number, a string)
NotMapping == [k |-> "null", v |-> None]

\* a key whose value is a mapping; v is its 'name' / 'key' entry (None: no entry)
Mapping(v) == [k |-> "map", v |-> v]

\* an inner record of a storage notification wrapper
S3Record(source, s3, bucket, object) ==
    [eventSource |-> source, s3 |-> s3, bucket |-> bucket, object |-> object]

\* a parsed (or unparsable) envelope body
Body(json, records, Records, bucket, object) ==
    [json |-> json, records |-> records, Records |-> Records,
     bucket |-> bucket, object |-> object]

NoBody == Body("none", "absent", <<>>, Absent, Absent)

SeqsUpTo(S, n) == UNION {[1..m -> S] : m \in 0..n}

-----------------------------------------------------------------------------
(* Inputs of lambda_handler *)

SourceBucket == "src"

ConfiguredBucket == "dst"

\* inner records: two complete storage records, a complete record of another
\* event source, and a storage record whose bucket and object mappings are
\* empty
InnerRecords ==
    { S3Record("aws:s3", "map", Mapping(SourceBucket), Mapping("folder/a.txt")),
      S3Record("aws:s3", "map", Mapping(SourceBucket), Mapping("b.txt")),
      S3Record("aws:sns", "map", Mapping(SourceBucket), Mapping("folder/a.txt")),
      S3Record("aws:s3", "map", Mapping(None), Mapping(None)) }

WrapperBodies ==
    { Body("object", "list", rs, Absent, Absent) : rs \in SeqsUpTo(InnerRecords, MaxInner) }

DirectBodies ==
    { Body("object", "absent", <<>>, Mapping(SourceBucket), Mapping("folder/a.txt")),
      Body("object", "absent", <<>>, Mapping(SourceBucket), Mapping("b.txt")),
      Body("object", "absent", <<>>, Mapping(SourceBucket), Absent),
      Body("object", "absent", <<>>, Mapping(SourceBucket), Mapping(None)),
      Body("object", "absent", <<>>, Mapping(SourceBucket), Mapping("")),
      Body("object", "absent", <<>>, Absent, Mapping("b.txt")),
      Body("object", "absent", <<>>, Mapping(""), Mapping("b.txt")),
      Body("object", "absent", <<>>, NotMapping, Mapping("b.txt")),
      Body("object", "absent", <<>>, Mapping(SourceBucket), NotMapping) }

\* bodies of neither shape: not JSON, a JSON number, a JSON array, and an
\* object whose 'Records' entry cannot be iterated
OtherBodies ==
    { Body("invalid", "absent", <<>>, Absent, Absent),
      Body("scalar", "absent", <<>>, Absent, Absent),
      Body("list", "absent", <<>>, Absent, Absent),
      Body("object", "null", <<>>, Absent, Absent) }

Envelopes == WrapperBodies \cup DirectBodies \cup OtherBodies

\* what s3_client.copy_object does: it returns, raises ClientError with one of
\* these codes, or raises something that is not a ClientError
ClientErrorCodes == {"NoSuchKey", "AccessDenied"}

Responses == {"ok", "Exception"} \cup ClientErrorCodes

-----------------------------------------------------------------------------
(* Python expressions *)

Returned(v) == [raised |-> FALSE, value |-> v]

Raised == [raised |-> TRUE, value |-> None]

TruthyNotNone(v) == v # None

\* bool(v) of a string or None
Truthy(v) == v \notin {None, ""}

\* message_body.get(field, {}).get(entry)
GetChain(field) ==
    CASE field.k = "absent" -> Returned(None)
      [] field.k = "null"   -> Raised
      [] OTHER              -> Returned(field.v)

\* s3_record['s3'][field][entry]
Subscript(s3_record, field) ==
    IF s3_record.s3 = "map" /\ field.k = "map" /\ field.v # None
    THEN Returned(field.v)
    ELSE Raised

IsStorageEventAll(s3_record) == TRUE

\* s3_record.get('eventSource') == 'aws:s3'
IsStorageEvent(s3_record) == s3_record.eventSource = "aws:s3"

\* 'Records' in message_body, for a body json.loads accepted
HasRecords(message_body) == message_body.records # "absent"

-----------------------------------------------------------------------------
(* copy_s3_object *)

DestinationKeyFlat(source_key) == "copy"

\* Key=source_key
DestinationKey(source_key) == source_key

CopyRequest(source_bucket, source_key, destination_bucket) ==
    [op |-> "copy_object", SrcBucket |-> source_bucket, SrcKey |-> source_key,
     Bucket |-> destination_bucket, Key |-> DestinationKey(source_key),
     MetadataDirective |-> "COPY"]

PropagatesAll(response) == response # "ok"

\* the except clauses: NoSuchKey is logged and swallowed, everything else re-raised
Propagates(response) ==
    CASE response = "ok"                -> FALSE
      [] response \in ClientErrorCodes  -> response # "NoSuchKey"
      [] OTHER                          -> TRUE

EnvironDefault(environ) == IF environ = Unset THEN Returned("") ELSE Returned(environ)

\* os.environ['DESTINATION_BUCKET']
Environ(environ) == IF environ = Unset THEN Raised ELSE Returned(environ)

\* the call copy_s3_object(source_bucket, source_key) when the backend answers
\* with response: whether it raises, the requests it issued, and how it ended
copy_s3_object(source_bucket, source_key, response) ==
    LET destination_bucket == Environ(DESTINATION_BUCKET) IN
    IF destination_bucket.raised
    THEN [raised |-> TRUE, requests |-> {}, outcome |-> "KeyError"]
    ELSE [raised |-> Propagates(response),
          requests |-> {CopyRequest(source_bucket, source_key, destination_bucket.value)},
          outcome |-> response]

Call(bucket, key, res) == [bucket |-> bucket, key |-> key, outcome |-> res.outcome]

-----------------------------------------------------------------------------
(* lambda_handler *)

NoResult == [statusCode |-> 0, success_count |-> 0, error_count |-> 0]

StatusCode == 200

\* one unit per inner record of a wrapper, one for every other envelope
Units(message_body) ==
    IF message_body.json = "object" /\ message_body.records = "list"
    THEN Len(message_body.Records)
    ELSE 1

Init ==
    /\ DESTINATION_BUCKET \in {ConfiguredBucket, Unset}
    /\ remaining \in 0..MaxBatch
    /\ pc = "loop"
    /\ record = NoBody
    /\ idx = 0
    /\ success_count = 0
    /\ error_count = 0
    /\ result = NoResult
    /\ copies = {}
    /\ outs = <<>>
    /\ s0 = 0
    /\ e0 = 0
    /\ caught = FALSE
    /\ units = 0
    /\ vbody = NoBody
    /\ vresult = "idle"

ContinueAbort == "abort"

\* continue: where the handler goes after the except branch
Continue == "loop"

\* except Exception: log, error_count += 1, continue
Except ==
    /\ error_count' = error_count + 1
    /\ caught' = TRUE
    /\ pc' = Continue

SuccessAlways(res) == success_count + 1

\* copy_s3_object(...) followed by success_count += 1, which an exception skips
SuccessAfterCopy(res) == IF res.raised THEN success_count ELSE success_count + 1

\* the next envelope: json.loads(record['body']) and the choice of the branch
ParseBody ==
    /\ pc = "loop"
    /\ remaining > 0
    /\ \E message_body \in Envelopes :
         /\ record' = message_body
         /\ units' = units + Units(message_body)
         /\ IF message_body.json \in {"invalid", "scalar"}
            THEN Except /\ idx' = 0
            ELSE IF message_body.json = "object" /\ HasRecords(message_body)
            THEN IF message_body.records = "list"
                 THEN pc' = "inner" /\ idx' = 1 /\ caught' = FALSE
                      /\ error_count' = error_count
                 ELSE Except /\ idx' = 0
            ELSE pc' = "direct" /\ idx' = 0 /\ caught' = FALSE
                 /\ error_count' = error_count
    /\ remaining' = remaining - 1
    /\ s0' = success_count
    /\ e0' = error_count
    /\ outs' = <<>>
    /\ UNCHANGED <<DESTINATION_BUCKET, success_count, result, copies, vbody, vresult>>

\* one iteration of: for s3_record in message_body['Records']
InnerRecord ==
    /\ pc = "inner"
    /\ idx <= Len(record.Records)
    /\ LET s3_record == record.Records[idx] IN
       IF IsStorageEvent(s3_record)
       THEN LET bucket_name == Subscript(s3_record, s3_record.bucket)
                object_key == Subscript(s3_record, s3_record.object)
            IN IF bucket_name.raised \/ object_key.raised
               THEN Except /\ UNCHANGED <<idx, success_count, copies, outs>>
               ELSE \E response \in Responses :
                      LET res == copy_s3_object(bucket_name.value, object_key.value, response) IN
                      /\ copies' = copies \cup res.requests
                      /\ outs' = Append(outs, Call(bucket_name.value, object_key.value, res))
                      /\ success_count' = SuccessAfterCopy(res)
                      /\ IF res.raised
                         THEN Except /\ idx' = idx
                         ELSE idx' = idx + 1 /\ UNCHANGED <<error_count, caught, pc>>
       ELSE idx' = idx + 1
            /\ UNCHANGED <<success_count, error_count, caught, pc, copies, outs>>
    /\ UNCHANGED <<DESTINATION_BUCKET, remaining, record, result, s0, e0, units,
                   vbody, vresult>>

\* the inner loop is exhausted
EndRecords ==
    /\ pc = "inner"
    /\ idx > Len(record.Records)
    /\ pc' = "loop"
    /\ UNCHANGED <<DESTINATION_BUCKET, remaining, record, idx, success_count,
                   error_count, result, copies, outs, s0, e0, caught, units,
                   vbody, vresult>>

\* the direct S3 event format
DirectForm ==
    /\ pc = "direct"
    /\ LET bucket_name == IF record.json = "object" THEN GetChain(record.bucket) ELSE Raised
           object_key == IF record.json = "object" THEN GetChain(record.object) ELSE Raised
       IN IF bucket_name.raised \/ object_key.raised
          THEN Except /\ UNCHANGED <<success_count, copies, outs>>
          ELSE IF Truthy(bucket_name.value) /\ Truthy(object_key.value)
          THEN \E response \in Responses :
                 LET res == copy_s3_object(bucket_name.value, object_key.value, response) IN
                 /\ copies' = copies \cup res.requests
                 /\ outs' = Append(outs, Call(bucket_name.value, object_key.value, res))
                 /\ success_count' = SuccessAfterCopy(res)
                 /\ IF res.raised
                    THEN Except
                    ELSE pc' = "loop" /\ UNCHANGED <<error_count, caught>>
          ELSE /\ error_count' = error_count + 1
               /\ pc' = "loop"
               /\ UNCHANGED <<success_count, caught, copies, outs>>
    /\ UNCHANGED <<DESTINATION_BUCKET, remaining, record, idx, result, s0, e0, units,
                   vbody, vresult>>

\* the return statement after the loop
Return ==
    /\ pc = "loop"
    /\ remaining = 0
    /\ result' = [statusCode |-> StatusCode, success_count |-> success_count,
                  error_count |-> error_count]
    /\ pc' = "done"
    /\ UNCHANGED <<DESTINATION_BUCKET, remaining, record, idx, success_count,
                   error_count, copies, outs, s0, e0, caught, units, vbody, vresult>>

Next == ParseBody \/ InnerRecord \/ EndRecords \/ DirectForm \/ Return

Spec == Init /\ [][Next]_vars

\* the handler is one synchronous call: it keeps running until it returns
FairSpec == Spec /\ WF_vars(Next)

-----------------------------------------------------------------------------
(* validate_s3_notification *)

FieldValues == {Absent, NotMapping, Mapping(None), Mapping(""), Mapping(SourceBucket)}

InnerFieldValues == {Absent, Mapping(""), Mapping(SourceBucket)}

ValidatorRecords ==
    { S3Record(source, "absent", Absent, Absent) : source \in {"aws:s3", "aws:sns"} }
    \cup { S3Record(source, "map", bucket, object) :
             source \in {"aws:s3", "aws:sns"},
             bucket \in InnerFieldValues, object \in InnerFieldValues }

ValidatorBodies ==
    { Body("object", "list", rs, Absent, Absent) : rs \in SeqsUpTo(ValidatorRecords, MaxInner) }
    \cup { Body("object", "absent", <<>>, bucket, object) :
             bucket \in FieldValues, object \in FieldValues }
    \cup { Body("object", "null", <<>>, Absent, Absent) }

RecordMatchesPopulated(s3_record) ==
    /\ s3_record.eventSource = "aws:s3"
    /\ s3_record.s3 = "map"
    /\ s3_record.bucket.k = "map" /\ Truthy(s3_record.bucket.v)
    /\ s3_record.object.k = "map" /\ Truthy(s3_record.object.v)

\* eventSource == 'aws:s3' and 's3' in record and 'bucket' in record['s3']
\* and 'object' in record['s3']
RecordMatches(s3_record) ==
    /\ s3_record.eventSource = "aws:s3"
    /\ s3_record.s3 # "absent"
    /\ s3_record.bucket.k # "absent"
    /\ s3_record.object.k # "absent"

RECURSIVE ScanRecords(_, _)
\* for record in message_body['Records']: return True at the first match
ScanRecords(Records, i) ==
    IF i > Len(Records) THEN "False"
    ELSE IF RecordMatches(Records[i]) THEN "True"
    ELSE ScanRecords(Records, i + 1)

\* message_body[field].get(entry), as a condition
FieldTruthy(field) ==
    IF field.k = "map" THEN Returned(IF Truthy(field.v) THEN "True" ELSE "False") ELSE Raised

\* the elif condition, evaluated left to right with short-circuit
DirectMatches(message_body) ==
    IF message_body.bucket.k = "absent" \/ message_body.object.k = "absent"
    THEN "False"
    ELSE LET name == FieldTruthy(message_body.bucket) IN
         IF name.raised THEN "raise"
         ELSE IF name.value = "False" THEN "False"
         ELSE LET key == FieldTruthy(message_body.object) IN
              IF key.raised THEN "raise" ELSE key.value

validate_s3_notification(message_body) ==
    IF HasRecords(message_body)
    THEN IF message_body.records = "list"
         THEN ScanRecords(message_body.Records, 1)
         ELSE "raise"
    ELSE DirectMatches(message_body)

InitValidate ==
    /\ DESTINATION_BUCKET \in {ConfiguredBucket, Unset}
    /\ remaining = 0
    /\ pc = "loop"
    /\ record = NoBody
    /\ idx = 0
    /\ success_count = 0
    /\ error_count = 0
    /\ result = NoResult
    /\ copies = {}
    /\ outs = <<>>
    /\ s0 = 0
    /\ e0 = 0
    /\ caught = FALSE
    /\ units = 0
    /\ vbody \in ValidatorBodies
    /\ vresult = "idle"

Validate ==
    /\ vresult = "idle"
    /\ vresult' = validate_s3_notification(vbody)
    /\ UNCHANGED <<hvars, vbody>>

SpecValidate == InitValidate /\ [][Validate]_vars

-----------------------------------------------------------------------------
(* Vocabulary of the properties *)

\* the current envelope has been processed to its end
EnvelopeDone == pc \in {"loop", "done"} /\ record # NoBody

\* what the current envelope has added to the counters
AddedSuccess == success_count - s0

AddedErrors == error_count - e0

IsWrapper(body) == body.json = "object" /\ body.records = "list"

\* a parsed mapping without an inner-record collection
IsDirect(body) == body.json = "object" /\ body.records = "absent"

StorageTagged(r) == r.eventSource = "aws:s3"

\* the storage inner records among the first n
StorageUpTo(rs, n) == {i \in 1..Len(rs) : i <= n /\ StorageTagged(rs[i])}

\* the inner records the loop has reached
Reached == IF pc = "inner" THEN idx - 1
           ELSE IF idx > Len(record.Records) THEN Len(record.Records) ELSE idx

Populated(field) == field.k = "map" /\ field.v \notin {None, ""}

CountedAsSuccess == {"ok", "NoSuchKey"}

ExpectedRequest(call) ==
    [op |-> "copy_object", SrcBucket |-> call.bucket, SrcKey |-> call.key,
     Bucket |-> DESTINATION_BUCKET, Key |-> call.key, MetadataDirective |-> "COPY"]

\* An envelope processed on its own, from zero counters, when the storage
\* layer answers its calls with the outcomes of answers: the counts it adds and
\* the calls it makes.
Contribution(s, e, calls, short) == [s |-> s, e |-> e, calls |-> calls, short |-> short]

RECURSIVE AloneFrom(_, _, _, _)
AloneFrom(rs, i, answers, acc) ==
    IF i > Len(rs) THEN acc
    ELSE IF ~StorageTagged(rs[i]) THEN AloneFrom(rs, i + 1, answers, acc)
    ELSE IF ~(rs[i].s3 = "map" /\ rs[i].bucket.k = "map" /\ rs[i].bucket.v # None
              /\ rs[i].object.k = "map" /\ rs[i].object.v # None)
    THEN [acc EXCEPT !.e = 1]
    ELSE IF Len(acc.calls) >= Len(answers) THEN [acc EXCEPT !.short = TRUE]
    ELSE LET a == answers[Len(acc.calls) + 1].outcome
             call == [bucket |-> rs[i].bucket.v, key |-> rs[i].object.v, outcome |-> a]
         IN IF a \in CountedAsSuccess
            THEN AloneFrom(rs, i + 1, answers,
                           [acc EXCEPT !.s = @ + 1, !.calls = Append(@, call)])
            ELSE [acc EXCEPT !.e = 1, !.calls = Append(@, call)]

Alone(body, answers) ==
    IF IsWrapper(body)
    THEN AloneFrom(body.Records, 1, answers, Contribution(0, 0, <<>>, FALSE))
    ELSE IF body.json = "object" /\ body.records = "absent"
            /\ Populated(body.bucket) /\ Populated(body.object)
            /\ Len(answers) >= 1
    THEN LET a == answers[1].outcome
             call == [bucket |-> body.bucket.v, key |-> body.object.v, outcome |-> a]
         IN IF a \in CountedAsSuccess
            THEN Contribution(1, 0, <<call>>, FALSE)
            ELSE Contribution(0, 1, <<call>>, FALSE)
    ELSE Contribution(0, 1, <<>>, FALSE)

-----------------------------------------------------------------------------
(* Properties *)

\* C1: whatever the envelopes and whatever each copy does, lambda_handler
\* terminates and returns statusCode 200 with success_count and error_count;
\* no exception leaves the handler.
C1_AlwaysReturns200 ==
    /\ [](pc # "abort")
    /\ [](pc = "done" =>
            result = [statusCode |-> 200, success_count |-> success_count,
                      error_count |-> error_count])
    /\ <>(pc = "done")

C1_Witness ==
    /\ pc = "done"
    /\ result.statusCode = 200
    /\ result.error_count > 1
    /\ result.success_count > 0

\* C2: an unparsable envelope adds exactly one error and makes no copy call;
\* after a failing envelope the handler is back at the head of the loop, the
\* batch is returned only when every envelope has been reached, and each
\* envelope adds the counts and makes the calls it would make on its own.
C2_EnvelopeIsolation ==
    /\ (caught => pc \in {"loop", "done"})
    /\ (pc = "done" => remaining = 0)
    /\ (EnvelopeDone /\ record.json = "invalid" =>
           AddedErrors = 1 /\ AddedSuccess = 0 /\ outs = <<>>)
    /\ (EnvelopeDone =>
           Alone(record, outs) = Contribution(AddedSuccess, AddedErrors, outs, FALSE))

C2_Witness ==
    /\ EnvelopeDone
    /\ e0 > 0
    /\ AddedSuccess > 0
    /\ Len(outs) > 0

\* C3 as stated: a wrapper with N storage inner records attempts all N and
\* adds N to success_count + error_count.
C3_Original ==
    EnvelopeDone /\ IsWrapper(record) =>
        /\ Cardinality(StorageUpTo(record.Records, Reached))
             = Cardinality(StorageUpTo(record.Records, Len(record.Records)))
        /\ AddedSuccess + AddedErrors
             = Cardinality(StorageUpTo(record.Records, Len(record.Records)))

\* C3 amended: the storage inner records of a wrapper are attempted in order
\* up to and including the first one that fails; each attempted one counts as
\* exactly one success or one error, the first failure is the envelope's only
\* error and ends the envelope, and all N are counted when none fails.
C3_CountedUntilFirstFailure ==
    /\ (pc = "inner" =>
           /\ AddedSuccess = Cardinality(StorageUpTo(record.Records, Reached))
           /\ AddedErrors = 0)
    /\ (EnvelopeDone /\ IsWrapper(record) =>
           /\ AddedSuccess + AddedErrors = Cardinality(StorageUpTo(record.Records, Reached))
           /\ AddedErrors <= 1
           /\ (AddedErrors = 0 => Reached = Len(record.Records))
           /\ (AddedErrors = 1 =>
                 caught /\ idx <= Len(record.Records) /\ StorageTagged(record.Records[idx])))

C3_Witness ==
    /\ EnvelopeDone
    /\ IsWrapper(record)
    /\ AddedErrors = 1
    /\ Len(outs) = 1
    /\ Reached < Len(record.Records)
    /\ StorageTagged(record.Records[Len(record.Records)])

\* C4: a copy attempt that reaches the backend adds one to success_count and
\* nothing to error_count exactly when the backend succeeds or answers
\* NoSuchKey; with any other backend error or unexpected error it adds
\* nothing to success_count and one to error_count.
C4_NotFoundAsymmetry ==
    [][(Len(outs') = Len(outs) + 1 /\ outs'[Len(outs')].outcome \in Responses) =>
          IF outs'[Len(outs')].outcome \in {"ok", "NoSuchKey"}
          THEN success_count' = success_count + 1 /\ error_count' = error_count
          ELSE success_count' = success_count /\ error_count' = error_count + 1]_vars

C4_Witness ==
    /\ Len(outs) > 0
    /\ outs[Len(outs)].outcome = "NoSuchKey"
    /\ AddedSuccess = Len(outs)
    /\ AddedErrors = 0

\* C5 as stated: in the direct form a missing or empty bucket name or object
\* key gives no copy, one error, no success and no exception; otherwise
\* exactly one copy is attempted for (bucket, key).
C5_Original ==
    EnvelopeDone /\ IsDirect(record) =>
        IF Populated(record.bucket) /\ Populated(record.object)
        THEN Len(outs) = 1 /\ outs[1].bucket = record.bucket.v
             /\ outs[1].key = record.object.v
        ELSE outs = <<>> /\ AddedErrors = 1 /\ AddedSuccess = 0 /\ ~caught

\* C5 amended: as stated, except that an exception is raised, and caught by
\* the envelope's handler, exactly when the bucket or the object entry is
\* present but not a mapping.
C5_DirectForm ==
    EnvelopeDone /\ IsDirect(record) =>
        IF Populated(record.bucket) /\ Populated(record.object)
        THEN Len(outs) = 1 /\ outs[1].bucket = record.bucket.v
             /\ outs[1].key = record.object.v
        ELSE /\ outs = <<>> /\ AddedErrors = 1 /\ AddedSuccess = 0
             /\ caught = (record.bucket.k = "null" \/ record.object.k = "null")

C5_Witness ==
    /\ EnvelopeDone
    /\ IsDirect(record)
    /\ record.json = "object"
    /\ record.bucket.k = "map"
    /\ record.object = Mapping("")
    /\ outs = <<>>
    /\ AddedErrors = 1
    /\ ~caught

\* C6: an inner record whose eventSource is not "aws:s3" causes no copy call,
\* changes neither counter, and the loop goes on to the next inner record.
C6_SkipsOtherSources ==
    [][(pc = "inner" /\ idx <= Len(record.Records)
        /\ ~StorageTagged(record.Records[idx])) =>
          /\ success_count' = success_count
          /\ error_count' = error_count
          /\ copies' = copies
          /\ outs' = outs
          /\ pc' = "inner"
          /\ idx' = idx + 1]_vars

C6_Witness ==
    /\ EnvelopeDone
    /\ IsWrapper(record)
    /\ Len(record.Records) = 2
    /\ ~StorageTagged(record.Records[1])
    /\ StorageTagged(record.Records[2])
    /\ Len(outs) = 1
    /\ AddedSuccess = 1
    /\ AddedErrors = 0

C8_CountsWithinUnits ==
    /\ success_count + error_count <= units
    /\ (pc = "done" => result.success_count + result.error_count <= units)

C8_Witness ==
    /\ pc = "done"
    /\ result.success_count > 0
    /\ result.success_count + result.error_count < units

\* C9: with DESTINATION_BUCKET unset no request reaches the backend, every
\* copy call fails with the configuration error and is counted as the
\* envelope's error, and success_count stays 0.
C9_UnsetDestination ==
    DESTINATION_BUCKET = Unset =>
        /\ copies = {}
        /\ success_count = 0
        /\ \A k \in 1..Len(outs) : outs[k].outcome = "KeyError"
        /\ (Len(outs) > 0 => Len(outs) = 1 /\ AddedErrors = 1 /\ caught)
        /\ (pc = "done" => result.success_count = 0)

C9_Witness ==
    /\ DESTINATION_BUCKET = Unset
    /\ pc = "done"
    /\ Len(outs) = 1
    /\ result.error_count > 1

\* the handler's state is as validate_s3_notification found it
HandlerUntouched ==
    /\ copies = {}
    /\ success_count = 0
    /\ error_count = 0
    /\ outs = <<>>
    /\ pc = "loop"
    /\ result = NoResult

\* the bodies C10 calls valid
ClaimedValid(body) ==
    \/ /\ body.records = "list"
       /\ \E i \in 1..Len(body.Records) :
             /\ body.Records[i].eventSource = "aws:s3"
             /\ body.Records[i].s3 = "map"
             /\ Populated(body.Records[i].bucket)
             /\ Populated(body.Records[i].object)
    \/ /\ body.records = "absent"
       /\ Populated(body.bucket)
       /\ Populated(body.object)

ValidatorRaises(body) ==
    \/ body.records = "null"
    \/ /\ body.records = "absent"
       /\ body.bucket.k # "absent"
       /\ body.object.k # "absent"
       /\ \/ body.bucket.k = "null"
          \/ Populated(body.bucket) /\ body.object.k = "null"

AmendedValid(body) ==
    \/ /\ body.records = "list"
       /\ \E i \in 1..Len(body.Records) :
             /\ body.Records[i].eventSource = "aws:s3"
             /\ body.Records[i].s3 = "map"
             /\ body.Records[i].bucket.k # "absent"
             /\ body.Records[i].object.k # "absent"
    \/ /\ body.records = "absent"
       /\ Populated(body.bucket)
       /\ Populated(body.object)

====
